---- MODULE Spec2Model ----
(***************************************************************************)
(* Model of cmd/moby/build.go: the trust policy evaluator                  *)
(* (enforceContentTrust), the kernel splitter (untarKernel), the archive   *)
(* append primitive (initrdAppend) and the build pipeline (buildInternal). *)
(*                                                                         *)
(* A Go string is a sequence of one-character strings, so that             *)
(* strings.Split and string concatenation are computed, not assumed.       *)
(* A tar stream is a sequence of entries [Name, Mode, Size, Typeflag,      *)
(* Data]; the content of an entry is a blob, either plain bytes or the     *)
(* bytes of a nested tar stream.                                           *)
(***************************************************************************)
EXTENDS Integers, Sequences, FiniteSets, TLC

VARIABLES
    \* enforceContentTrust, one call
    fullImageName, config, ect_pc, nameMatched, orgMatched, ect_result,
    \* untarKernel, one call
    buf, cmdline, tr, foundKernel, kernel, ktar, utk_pc, utk_err,
    \* buildInternal, one run
    m, pull, pc, idx, iw, closes, calls, appended, fatal, returned,
    \* initrdAppend, one call
    app_iw0, app_iw, app_r, app_fault, app_tr, app_pc,
    \* getDiskSizeMB, one call
    size_s, size_pc, size_mb, size_err,
    \* the bundle paths of two successive entries of a list
    path_kind, path_i, path_images, path_out

ectVars == <<fullImageName, config, ect_pc, nameMatched, orgMatched, ect_result>>
utkVars == <<buf, cmdline, tr, foundKernel, kernel, ktar, utk_pc, utk_err>>
buildVars == <<m, pull, pc, idx, iw, closes, calls, appended, fatal, returned>>
appVars == <<app_iw0, app_iw, app_r, app_fault, app_tr, app_pc>>
sizeVars == <<size_s, size_pc, size_mb, size_err>>
pathVars == <<path_kind, path_i, path_images, path_out>>
vars == <<ectVars, utkVars, buildVars,
                   appVars, sizeVars, pathVars>>

(***************************************************************************)
(* Bounds of the model.                                                    *)
(***************************************************************************)
MaxTrustEntries == 2    \* longest Image list and Org list of a trust policy
MaxTarEntries == 3      \* longest kernel image tar given to untarKernel
MaxInit == 1            \* longest Init list of a build
MaxOnboot == 3          \* longest Onboot list of a build
MaxServices == 1        \* longest Services list of a build
MaxFragmentEntries == 2 \* longest fragment given to initrdAppend
MaxSizeLen == 3         \* longest string given to getDiskSizeMB
MaxIndex == 1000        \* largest list position a bundle path is computed for

SeqsUpTo(S, n) == UNION { [1..k -> S] : k \in 0..n }

(***************************************************************************)
(* Strings.                                                                *)
(***************************************************************************)
\* strings.Index: the position of the first occurrence of sep in s, 0 if none.
Index(s, sep) ==
    LET hits == { p \in 1..(Len(s) - Len(sep) + 1) :
                    SubSeq(s, p, p + Len(sep) - 1) = sep }
    IN  IF hits = {} THEN 0 ELSE CHOOSE p \in hits : \A q \in hits : p <= q

\* strings.Split(s, sep) for a non-empty sep: the pieces between the
\* occurrences of sep, left to right; always at least one piece.
RECURSIVE Split(_, _)
Split(s, sep) ==
    LET p == Index(s, sep)
    IN  IF p = 0
        THEN <<s>>
        ELSE <<SubSeq(s, 1, p - 1)>> \o Split(SubSeq(s, p + Len(sep), Len(s)), sep)

Colon == <<":">>
Slash == <<"/">>
DigestSep == <<"@", "s", "h", "a", "2", "5", "6", ":">>
Library == <<"l", "i", "b", "r", "a", "r", "y">>

(***************************************************************************)
(* enforceContentTrust.                                                    *)
(***************************************************************************)
\* The body of the loop over config.Image for one entry img: TRUE when the
\* loop returns true at this entry.
ImageEntryMatches(img, name) ==
    LET imgAndTag == Split(name, Colon)
        imgAndDigest == Split(name, DigestSep)
    IN  \/ img = name
        \/ Len(imgAndTag) >= 2 /\ img = imgAndTag[1]
        \/ Len(imgAndDigest) >= 2 /\ img = imgAndDigest[1]

\* The body of the loop over config.Org for one entry org: "true" and "false"
\* are returns, "next" goes on with the next entry.
OrgEntryResult(org, name) ==
    LET splitName == Split(name, Slash)
    IN  IF Len(splitName) = 0
        THEN "false"
        ELSE LET imgOrg == CASE Len(splitName) = 1 -> Library
                             [] Len(splitName) = 2 -> splitName[1]
                             [] OTHER -> splitName[2]
             IN  IF imgOrg = org THEN "true" ELSE "next"

RECURSIVE ImageLoop(_, _, _)
ImageLoop(name, Image, k) ==
    IF k > Len(Image) THEN FALSE
    ELSE IF ImageEntryMatches(Image[k], name) THEN TRUE
    ELSE ImageLoop(name, Image, k + 1)

RECURSIVE OrgLoop(_, _, _)
OrgLoop(name, Org, k) ==
    IF k > Len(Org) THEN FALSE
    ELSE LET r == OrgEntryResult(Org[k], name)
         IN  IF r = "next" THEN OrgLoop(name, Org, k + 1) ELSE r = "true"

\* Variant of enforceContentTrust: a policy without org entries trusts every
\* organization.
enforceContentTrust_NoOrgTrustsAll(name, cfg) ==
    IF ImageLoop(name, cfg.Image, 1) THEN TRUE
    ELSE IF cfg.Org = <<>> THEN TRUE
    ELSE OrgLoop(name, cfg.Org, 1)

enforceContentTrust(name, cfg) ==
    IF ImageLoop(name, cfg.Image, 1) THEN TRUE ELSE OrgLoop(name, cfg.Org, 1)

\* One call of enforceContentTrust, in two steps: the loop over config.Image,
\* then (when it did not return) the loop over config.Org.
TrustRegistries == { <<>>, <<"r", "/">>, <<"r", ":", "5", "/">> }
TrustOrgs == { <<>>, <<"o", "/">>, Library \o Slash }
TrustTags == { <<>>, <<":", "t">> }
TrustDigests == { <<>>, DigestSep \o <<"d">>, DigestSep \o <<"e">> }
TrustRefs ==
    { <<>> } \cup
    { reg \o org \o <<"a">> \o tag \o dig :
        reg \in TrustRegistries, org \in TrustOrgs,
        tag \in TrustTags, dig \in TrustDigests }
ImagePatterns ==
    { <<"a">>, <<"o", "/", "a">>, <<"r">>, <<"r", ":", "5", "/", "o", "/", "a">>,
      <<"a">> \o DigestSep \o <<"d">>, <<"o", "/", "a", ":", "t">> }
OrgPatterns == { <<"o">>, Library }
TrustConfigs ==
    { [Image |-> im, Org |-> og] :
        im \in SeqsUpTo(ImagePatterns, MaxTrustEntries),
        og \in SeqsUpTo(OrgPatterns, MaxTrustEntries) }

InitEct ==
    /\ fullImageName \in TrustRefs
    /\ config \in TrustConfigs
    /\ ect_pc = "image"
    /\ nameMatched = FALSE
    /\ orgMatched = FALSE
    /\ ect_result = FALSE

IdleEct ==
    /\ fullImageName = <<>>
    /\ config = [Image |-> <<>>, Org |-> <<>>]
    /\ ect_pc = "idle"
    /\ nameMatched = FALSE
    /\ orgMatched = FALSE
    /\ ect_result = FALSE

EctImageLoop ==
    /\ ect_pc = "image"
    /\ nameMatched' = ImageLoop(fullImageName, config.Image, 1)
    /\ ect_result' = nameMatched'
    /\ ect_pc' = IF nameMatched' THEN "done" ELSE "org"
    /\ UNCHANGED <<fullImageName, config, orgMatched, utkVars, buildVars,
                   appVars, sizeVars, pathVars>>

EctOrgLoop ==
    /\ ect_pc = "org"
    /\ orgMatched' = OrgLoop(fullImageName, config.Org, 1)
    /\ ect_result' = orgMatched'
    /\ ect_pc' = "done"
    /\ UNCHANGED <<fullImageName, config, nameMatched, utkVars, buildVars,
                   appVars, sizeVars, pathVars>>

NextTrust == EctImageLoop \/ EctOrgLoop

(***************************************************************************)
(* Tar streams and buffers.                                                *)
(***************************************************************************)
\* The content of a tar entry or of a bytes.Buffer: plain bytes, or the bytes
\* of a tar stream holding the entries tar.
Bytes(s) == [isTar |-> FALSE, bytes |-> s, tar |-> <<>>]
TarBlob(entries) == [isTar |-> TRUE, bytes |-> <<>>, tar |-> entries]

RECURSIVE SumSizes(_, _)
SumSizes(entries, k) ==
    IF k > Len(entries) THEN 0
    ELSE 512 + ((entries[k].Size + 511) \div 512) * 512 + SumSizes(entries, k + 1)

\* The length in bytes of a blob; a tar stream is one 512-byte header per
\* entry, the content padded to 512 bytes, and a 1024-byte trailer.
BlobLen(b) == IF b.isTar THEN SumSizes(b.tar, 1) + 1024 ELSE Len(b.bytes)

\* tar.Header, with the content that follows it in the stream.
TypeReg == "0"
TypeDir == "5"
Header(name, mode, typeflag, data) ==
    [Name |-> name, Mode |-> mode, Size |-> BlobLen(data),
     Typeflag |-> typeflag, Data |-> data]

\* A *bytes.Buffer: nil, or a buffer holding a blob.
NilBuffer == [isNil |-> TRUE, blob |-> Bytes(<<>>)]
Buffer(b) == [isNil |-> FALSE, blob |-> b]

(***************************************************************************)
(* untarKernel.                                                            *)
(***************************************************************************)
kernelName == <<"k", "e", "r", "n", "e", "l">>
kernelAltName == <<"b", "z", "I", "m", "a", "g", "e">>
ktarName == <<"k", "e", "r", "n", "e", "l", ".", "t", "a", "r">>
BootName == <<"b", "o", "o", "t">>
BootKernelName == <<"b", "o", "o", "t", "/", "k", "e", "r", "n", "e", "l">>
BootCmdlineName == <<"b", "o", "o", "t", "/", "c", "m", "d", "l", "i", "n", "e">>
BootMode == 448         \* 0700

ErrDuplicateKernel == "found more than one possible kernel image"
ErrNoKernel == "did not find kernel in kernel image"
ErrNoKtar == "did not find kernel.tar in kernel image"

\* Variant of BootTarball: boot/kernel gets the mode of the directory.
BootTarball_FixedMode(hdr, cmd) ==
    TarBlob(<< [Name |-> BootName, Mode |-> BootMode, Size |-> 0,
                Typeflag |-> TypeDir, Data |-> Bytes(<<>>)],
               [Name |-> BootKernelName, Mode |-> BootMode, Size |-> hdr.Size,
                Typeflag |-> TypeReg, Data |-> hdr.Data],
               [Name |-> BootCmdlineName, Mode |-> BootMode, Size |-> Len(cmd),
                Typeflag |-> TypeReg, Data |-> Bytes(cmd)] >>)

\* The tarball written for a kernel entry hdr: boot, boot/kernel, boot/cmdline.
BootTarball(hdr, cmd) ==
    TarBlob(<< [Name |-> BootName, Mode |-> BootMode, Size |-> 0,
                Typeflag |-> TypeDir, Data |-> Bytes(<<>>)],
               [Name |-> BootKernelName, Mode |-> hdr.Mode, Size |-> hdr.Size,
                Typeflag |-> TypeReg, Data |-> hdr.Data],
               [Name |-> BootCmdlineName, Mode |-> BootMode, Size |-> Len(cmd),
                Typeflag |-> TypeReg, Data |-> Bytes(cmd)] >>)

\* The locals of untarKernel before the loop.
UtkStart ==
    [foundKernel |-> FALSE, kernel |-> NilBuffer, ktar |-> NilBuffer,
     err |-> "", returned |-> FALSE]

\* Variant of UtkEntry: a second kernel entry replaces the first.
UtkEntry_LastKernelWins(st, hdr, kName, kAltName, ktName, cmd) ==
    IF hdr.Name = kName \/ hdr.Name = kAltName
    THEN [st EXCEPT !.foundKernel = TRUE,
                    !.kernel = Buffer(BootTarball(hdr, cmd))]
    ELSE IF hdr.Name = ktName
    THEN [st EXCEPT !.ktar = Buffer(hdr.Data)]
    ELSE st

\* Variant of UtkEntry: the first kernel.tar entry is kept.
UtkEntry_FirstKtarWins(st, hdr, kName, kAltName, ktName, cmd) ==
    IF hdr.Name = kName \/ hdr.Name = kAltName
    THEN IF st.foundKernel
         THEN [st EXCEPT !.kernel = NilBuffer, !.ktar = NilBuffer,
                         !.err = ErrDuplicateKernel, !.returned = TRUE]
         ELSE [st EXCEPT !.foundKernel = TRUE,
                         !.kernel = Buffer(BootTarball(hdr, cmd))]
    ELSE IF hdr.Name = ktName /\ st.ktar.isNil
    THEN [st EXCEPT !.ktar = Buffer(hdr.Data)]
    ELSE st

\* The body of the loop for the entry hdr that tr.Next() returned.
UtkEntry(st, hdr, kName, kAltName, ktName, cmd) ==
    IF hdr.Name = kName \/ hdr.Name = kAltName
    THEN IF st.foundKernel
         THEN [st EXCEPT !.kernel = NilBuffer, !.ktar = NilBuffer,
                         !.err = ErrDuplicateKernel, !.returned = TRUE]
         ELSE [st EXCEPT !.foundKernel = TRUE,
                         !.kernel = Buffer(BootTarball(hdr, cmd))]
    ELSE IF hdr.Name = ktName
    THEN [st EXCEPT !.ktar = Buffer(hdr.Data)]
    ELSE st

\* Variant of UtkEOF: the two checks change places.
UtkEOF_KtarFirst(st) ==
    IF st.ktar.isNil
    THEN [st EXCEPT !.kernel = NilBuffer, !.ktar = NilBuffer,
                    !.err = ErrNoKtar, !.returned = TRUE]
    ELSE IF st.kernel.isNil
    THEN [st EXCEPT !.kernel = NilBuffer, !.ktar = NilBuffer,
                    !.err = ErrNoKernel, !.returned = TRUE]
    ELSE [st EXCEPT !.returned = TRUE]

\* The code after the loop, at io.EOF.
UtkEOF(st) ==
    IF st.kernel.isNil
    THEN [st EXCEPT !.kernel = NilBuffer, !.ktar = NilBuffer,
                    !.err = ErrNoKernel, !.returned = TRUE]
    ELSE IF st.ktar.isNil
    THEN [st EXCEPT !.kernel = NilBuffer, !.ktar = NilBuffer,
                    !.err = ErrNoKtar, !.returned = TRUE]
    ELSE [st EXCEPT !.returned = TRUE]

RECURSIVE UtkLoop(_, _, _, _, _, _, _)
UtkLoop(st, entries, k, kName, kAltName, ktName, cmd) ==
    IF st.returned THEN st
    ELSE IF k > Len(entries) THEN UtkEOF(st)
    ELSE UtkLoop(UtkEntry(st, entries[k], kName, kAltName, ktName, cmd),
                 entries, k + 1, kName, kAltName, ktName, cmd)

\* untarKernel on the entries of a well-formed tar stream: the locals at return.
untarKernel(entries, kName, kAltName, ktName, cmd) ==
    UtkLoop(UtkStart, entries, 1, kName, kAltName, ktName, cmd)

\* One call of untarKernel, one step per entry of the input stream.
RootfsA == << Header(<<"b", "i", "n">>, 493, TypeDir, Bytes(<<>>)),
              Header(<<"b", "i", "n", "/", "s", "h">>, 493, TypeReg, Bytes(<<"s", "h">>)) >>
RootfsB == << Header(<<"l", "i", "b">>, 493, TypeDir, Bytes(<<>>)) >>
KernelImageEntries ==
    { Header(kernelName, 420, TypeReg, Bytes(<<"X">>)),
      Header(kernelName, 493, TypeReg, Bytes(<<"Y", "Z">>)),
      Header(kernelAltName, 420, TypeReg, Bytes(<<"B">>)),
      Header(ktarName, 420, TypeReg, TarBlob(RootfsA)),
      Header(ktarName, 384, TypeReg, TarBlob(RootfsB)),
      Header(<<"e", "t", "c">>, 493, TypeDir, Bytes(<<>>)) }
Cmdlines == { <<>>, <<"c", "=", "t", "t", "y">> }

InitUtk ==
    /\ buf \in SeqsUpTo(KernelImageEntries, MaxTarEntries)
    /\ cmdline \in Cmdlines
    /\ tr = 0
    /\ foundKernel = UtkStart.foundKernel
    /\ kernel = UtkStart.kernel
    /\ ktar = UtkStart.ktar
    /\ utk_err = UtkStart.err
    /\ utk_pc = "loop"

IdleUtk ==
    /\ buf = <<>>
    /\ cmdline = <<>>
    /\ tr = 0
    /\ foundKernel = FALSE
    /\ kernel = NilBuffer
    /\ ktar = NilBuffer
    /\ utk_err = ""
    /\ utk_pc = "idle"

UtkLocals ==
    [foundKernel |-> foundKernel, kernel |-> kernel, ktar |-> ktar,
     err |-> utk_err, returned |-> FALSE]

UtkAssign(st) ==
    /\ foundKernel' = st.foundKernel
    /\ kernel' = st.kernel
    /\ ktar' = st.ktar
    /\ utk_err' = st.err
    /\ utk_pc' = IF st.returned THEN "done" ELSE "loop"

\* tr.Next() returns an entry named as a kernel.
UtkKernelEntry ==
    /\ utk_pc = "loop"
    /\ tr < Len(buf)
    /\ buf[tr + 1].Name \in {kernelName, kernelAltName}
    /\ tr' = tr + 1
    /\ UtkAssign(UtkEntry(UtkLocals, buf[tr + 1], kernelName, kernelAltName,
                          ktarName, cmdline))
    /\ UNCHANGED <<buf, cmdline, ectVars, buildVars,
                   appVars, sizeVars, pathVars>>

\* tr.Next() returns an entry named kernel.tar.
UtkKtarEntry ==
    /\ utk_pc = "loop"
    /\ tr < Len(buf)
    /\ buf[tr + 1].Name = ktarName
    /\ tr' = tr + 1
    /\ UtkAssign(UtkEntry(UtkLocals, buf[tr + 1], kernelName, kernelAltName,
                          ktarName, cmdline))
    /\ UNCHANGED <<buf, cmdline, ectVars, buildVars,
                   appVars, sizeVars, pathVars>>

\* tr.Next() returns an entry of any other name.
UtkOtherEntry ==
    /\ utk_pc = "loop"
    /\ tr < Len(buf)
    /\ buf[tr + 1].Name \notin {kernelName, kernelAltName, ktarName}
    /\ tr' = tr + 1
    /\ UtkAssign(UtkEntry(UtkLocals, buf[tr + 1], kernelName, kernelAltName,
                          ktarName, cmdline))
    /\ UNCHANGED <<buf, cmdline, ectVars, buildVars,
                   appVars, sizeVars, pathVars>>

\* tr.Next() returns io.EOF.
UtkAtEOF ==
    /\ utk_pc = "loop"
    /\ tr = Len(buf)
    /\ UtkAssign(UtkEOF(UtkLocals))
    /\ UNCHANGED <<buf, cmdline, tr, ectVars, buildVars,
                   appVars, sizeVars, pathVars>>

NextKernel == UtkKernelEntry \/ UtkKtarEntry \/ UtkOtherEntry \/ UtkAtEOF

(***************************************************************************)
(* initrdAppend and the tar writer.                                        *)
(***************************************************************************)
\* tar.NewWriter(w): the entries written so far, and whether Close was called.
NewWriter == [entries |-> <<>>, closed |-> FALSE]

\* Variant of WriteEntry: the header is written, the content is not copied.
WriteEntry_HeaderOnly(w, hdr) ==
    IF w.closed
    THEN [w |-> w, err |-> TRUE]
    ELSE [w |-> [w EXCEPT !.entries = Append(@, [hdr EXCEPT !.Data = Bytes(<<>>)])],
          err |-> FALSE]

\* iw.WriteHeader(hdr) followed by io.Copy(iw, tr) for one entry.
WriteEntry(w, hdr) ==
    IF w.closed
    THEN [w |-> w, err |-> TRUE]
    ELSE [w |-> [w EXCEPT !.entries = Append(@, hdr)], err |-> FALSE]

RECURSIVE AppendLoop(_, _, _)
AppendLoop(w, entries, k) ==
    IF k > Len(entries) THEN [w |-> w, err |-> FALSE]
    ELSE LET r == WriteEntry(w, entries[k])
         IN  IF r.err THEN r ELSE AppendLoop(r.w, entries, k + 1)

\* Variant of initrdAppend: the end of the fragment closes the archive.
initrdAppend_Closing(w, r) ==
    IF r.isTar
    THEN LET a == AppendLoop(w, r.tar, 1)
         IN  [w |-> [a.w EXCEPT !.closed = TRUE], err |-> a.err]
    ELSE [w |-> [w EXCEPT !.closed = TRUE], err |-> r.bytes # <<>>]

\* initrdAppend(iw, r): the writer afterwards; err stands for log.Fatalln.
\* A reader that holds no bytes is at io.EOF at once; bytes that are not a
\* tar stream fail in tr.Next().
initrdAppend(w, r) ==
    IF r.isTar THEN AppendLoop(w, r.tar, 1)
    ELSE [w |-> w, err |-> r.bytes # <<>>]

\* iw.Close().
WriterClose(w) == [w EXCEPT !.closed = TRUE]

(***************************************************************************)
(* The collaborators of buildInternal: what they return when they succeed. *)
(* Each may also fail; the actions below choose.                           *)
(***************************************************************************)
\* ImageExtract of an init image: the image's filesystem as a tar stream.
ImageExtract(image) ==
    TarBlob(<< Header(<<"b", "i", "n", "/">> \o image, 493, TypeReg, Bytes(image)) >>)

\* ImageExtract of the kernel image: the streams untarKernel may be given.
KernelEntry == Header(kernelName, 420, TypeReg, Bytes(<<"X">>))
AltKernelEntry == Header(kernelAltName, 493, TypeReg, Bytes(<<"B">>))
KtarEntry == Header(ktarName, 420, TypeReg, TarBlob(RootfsA))
BadKtarEntry == Header(ktarName, 420, TypeReg, Bytes(<<"?">>))
KernelImages ==
    { TarBlob(<<KernelEntry, KtarEntry>>),
      TarBlob(<<KernelEntry, AltKernelEntry, KtarEntry>>),
      TarBlob(<<KtarEntry>>),
      TarBlob(<<KernelEntry>>),
      TarBlob(<<KernelEntry, BadKtarEntry>>) }

\* ConfigToOCI: the runtime config of a container, opaque to the build.
ConfigToOCI(image) == Bytes(<<"{">> \o image.Name \o <<"}">>)

\* ImageBundle: the bundle rooted at path.
ImageBundle(path, image, cfg) ==
    TarBlob(<< Header(path, 493, TypeDir, Bytes(<<>>)),
               Header(path \o <<"/", "c", "f", "g">>, 420, TypeReg, cfg),
               Header(path \o <<"/", "r", "o", "o", "t">>, 420, TypeReg, Bytes(image)) >>)

\* filesystem(m): the overlay of files.
filesystem(spec) ==
    TarBlob(<< Header(<<"e", "t", "c">>, 493, TypeDir, Bytes(<<>>)) >>)

(***************************************************************************)
(* fmt.Sprintf("%03d", n).                                                 *)
(***************************************************************************)
Digit(d) == <<"0", "1", "2", "3", "4", "5", "6", "7", "8", "9">>[d + 1]

RECURSIVE Itoa(_)
Itoa(n) == IF n < 10 THEN <<Digit(n)>> ELSE Itoa(n \div 10) \o <<Digit(n % 10)>>

RECURSIVE PadLeft(_, _)
PadLeft(s, width) == IF Len(s) >= width THEN s ELSE PadLeft(<<"0">> \o s, width)

Sprintf03d(n) == PadLeft(Itoa(n), 3)

OnbootPrefix ==
    <<"c", "o", "n", "t", "a", "i", "n", "e", "r", "s", "/", "o", "n", "b", "o", "o", "t", "/">>
ServicesPrefix ==
    <<"c", "o", "n", "t", "a", "i", "n", "e", "r", "s", "/", "s", "e", "r", "v", "i", "c", "e", "s", "/">>

\* The bundle path of the Onboot entry at index n (from 0).
OnbootPath(n, image) == OnbootPrefix \o Sprintf03d(n) \o <<"-">> \o image.Name

\* The bundle path of a Services entry.
ServicePath(image) == ServicesPrefix \o image.Name

(***************************************************************************)
(* buildInternal.                                                          *)
(***************************************************************************)
BuildRefs == { <<"a">>, <<"o", "/", "b">> }
KernelRefs == { <<>>, <<"o", "/", "k">> }
Containers ==
    { [Name |-> <<"x">>, Image |-> <<"a">>],
      [Name |-> <<"y">>, Image |-> <<"o", "/", "b">>] }
ServiceContainers == { [Name |-> <<"z">>, Image |-> <<"o", "/", "b">>] }
TrustPolicies ==
    { [Image |-> <<>>, Org |-> <<>>],
      [Image |-> << <<"o", "/", "b">> >>, Org |-> <<>>],
      [Image |-> <<>>, Org |-> <<Library>>],
      [Image |-> <<>>, Org |-> << <<"o">> >>] }
Mobys ==
    { [Kernel |-> [Image |-> k, Cmdline |-> <<"c", "=", "1">>],
       Init |-> ini, Onboot |-> onb, Services |-> svc, Trust |-> t] :
        k \in KernelRefs,
        ini \in SeqsUpTo(BuildRefs, MaxInit),
        onb \in SeqsUpTo(Containers, MaxOnboot),
        svc \in SeqsUpTo(ServiceContainers, MaxServices),
        t \in TrustPolicies }

InitBuild ==
    /\ m \in Mobys
    /\ pull \in BOOLEAN
    /\ pc = "pull"
    /\ idx = 0
    /\ iw = NewWriter
    /\ closes = 0
    /\ calls = <<>>
    /\ appended = <<>>
    /\ fatal = ""
    /\ returned = NilBuffer

IdleBuild ==
    /\ m = [Kernel |-> [Image |-> <<>>, Cmdline |-> <<>>], Init |-> <<>>,
            Onboot |-> <<>>, Services |-> <<>>,
            Trust |-> [Image |-> <<>>, Org |-> <<>>]]
    /\ pull = FALSE
    /\ pc = "idle"
    /\ idx = 0
    /\ iw = NewWriter
    /\ closes = 0
    /\ calls = <<>>
    /\ appended = <<>>
    /\ fatal = ""
    /\ returned = NilBuffer

\* A call of a collaborator, as the collaborator sees it.
Call(fn, image, verify, allowPull, path) ==
    [fn |-> fn, phase |-> pc, image |-> image, verify |-> verify,
     pull |-> allowPull, path |-> path]

\* Variant of Fatal: the error is logged and the run goes on.
Fatal_LogOnly(msg) == pc' = pc /\ fatal' = msg

\* log.Fatalf: the process exits.
Fatal(msg) == pc' = "fatal" /\ fatal' = msg

\* One initrdAppend(iw, r) of the fragment of the given group and index.
Appended(group, n, w) ==
    [group |-> group, index |-> n, first |-> Len(iw.entries) + 1,
     last |-> Len(w.entries)]

\* initrdAppend(iw, buffer) that ends a step; on success the run goes on at
\* nextPc with index nextIdx.
AppendFragment(group, n, r, nextPc, nextIdx) ==
    LET a == initrdAppend(iw, r)
    IN  /\ iw' = a.w
        /\ IF a.err
           THEN Fatal("initrdAppend") /\ UNCHANGED <<idx, appended>>
           ELSE /\ appended' = Append(appended, Appended(group, n, a.w))
                /\ pc' = nextPc
                /\ fatal' = fatal
                /\ idx' = nextIdx

\* Lines 224-230: the kernel image is pulled.
BuildPull ==
    /\ pc = "pull"
    /\ pull \/ enforceContentTrust(m.Kernel.Image, m.Trust)
    /\ calls' = Append(calls, Call("dockerPull", m.Kernel.Image,
                  enforceContentTrust(m.Kernel.Image, m.Trust), FALSE, <<>>))
    /\ \E err \in BOOLEAN :
          IF err THEN Fatal("dockerPull") ELSE pc' = "kernel" /\ fatal' = fatal
    /\ UNCHANGED <<m, pull, idx, iw, closes, appended, returned, ectVars, utkVars,
                   appVars, sizeVars, pathVars>>

\* Lines 224-230: no pull.
BuildNoPull ==
    /\ pc = "pull"
    /\ ~(pull \/ enforceContentTrust(m.Kernel.Image, m.Trust))
    /\ pc' = "kernel"
    /\ UNCHANGED <<m, pull, idx, iw, closes, calls, appended, fatal, returned,
                   ectVars, utkVars,
                   appVars, sizeVars, pathVars>>

\* Lines 231-251: the kernel image is extracted, split and appended.
BuildKernel ==
    /\ pc = "kernel"
    /\ m.Kernel.Image # <<>>
    /\ calls' = Append(calls, Call("ImageExtract", m.Kernel.Image,
                  enforceContentTrust(m.Kernel.Image, m.Trust), pull, <<>>))
    /\ \/ Fatal("ImageExtract") /\ UNCHANGED <<idx, iw, appended>>
       \/ \E out \in KernelImages :
            LET u == untarKernel(out.tar, kernelName, kernelAltName, ktarName,
                                 m.Kernel.Cmdline)
                a1 == initrdAppend(iw, u.kernel.blob)
                a2 == initrdAppend(a1.w, u.ktar.blob)
            IN  IF u.err # ""
                THEN Fatal("untarKernel") /\ UNCHANGED <<idx, iw, appended>>
                ELSE IF a1.err
                THEN Fatal("initrdAppend") /\ iw' = a1.w /\ UNCHANGED <<idx, appended>>
                ELSE IF a2.err
                THEN /\ Fatal("initrdAppend")
                     /\ iw' = a2.w
                     /\ appended' = Append(appended, Appended("boot", 0, a1.w))
                     /\ idx' = idx
                ELSE /\ iw' = a2.w
                     /\ appended' = appended \o
                           << Appended("boot", 0, a1.w),
                              [Appended("ktar", 0, a2.w) EXCEPT
                                  !.first = Len(a1.w.entries) + 1] >>
                     /\ pc' = "init"
                     /\ fatal' = fatal
                     /\ idx' = 0
    /\ UNCHANGED <<m, pull, closes, returned, ectVars, utkVars,
                   appVars, sizeVars, pathVars>>

\* Line 231: no kernel image is specified.
BuildNoKernel ==
    /\ pc = "kernel"
    /\ m.Kernel.Image = <<>>
    /\ pc' = "init"
    /\ idx' = 0
    /\ UNCHANGED <<m, pull, iw, closes, calls, appended, fatal, returned,
                   ectVars, utkVars,
                   appVars, sizeVars, pathVars>>

\* Variant of BuildInit: the verify flag and the pull flag change places.
BuildInit_SwappedFlags ==
    /\ pc = "init"
    /\ idx < Len(m.Init)
    /\ LET ii == m.Init[idx + 1]
       IN  /\ calls' = Append(calls, Call("ImageExtract", ii,
                         pull, enforceContentTrust(ii, m.Trust), <<>>))
           /\ \/ Fatal("ImageExtract") /\ UNCHANGED <<idx, iw, appended>>
              \/ AppendFragment("init", idx, ImageExtract(ii), "init", idx + 1)
    /\ UNCHANGED <<m, pull, closes, returned, ectVars, utkVars,
                   appVars, sizeVars, pathVars>>

\* Lines 257-265: one init image.
BuildInit ==
    /\ pc = "init"
    /\ idx < Len(m.Init)
    /\ LET ii == m.Init[idx + 1]
       IN  /\ calls' = Append(calls, Call("ImageExtract", ii,
                         enforceContentTrust(ii, m.Trust), pull, <<>>))
           /\ \/ Fatal("ImageExtract") /\ UNCHANGED <<idx, iw, appended>>
              \/ AppendFragment("init", idx, ImageExtract(ii), "init", idx + 1)
    /\ UNCHANGED <<m, pull, closes, returned, ectVars, utkVars,
                   appVars, sizeVars, pathVars>>

\* Variant of BuildInitDone: the run goes on with the services.
BuildInitDone_ToServices ==
    /\ pc = "init"
    /\ idx = Len(m.Init)
    /\ pc' = "services"
    /\ idx' = 0
    /\ UNCHANGED <<m, pull, iw, closes, calls, appended, fatal, returned,
                   ectVars, utkVars,
                   appVars, sizeVars, pathVars>>

\* Line 257: the loop over m.Init ends.
BuildInitDone ==
    /\ pc = "init"
    /\ idx = Len(m.Init)
    /\ pc' = "onboot"
    /\ idx' = 0
    /\ UNCHANGED <<m, pull, iw, closes, calls, appended, fatal, returned,
                   ectVars, utkVars,
                   appVars, sizeVars, pathVars>>

\* Lines 270-284: one onboot container.
BuildOnboot ==
    /\ pc = "onboot"
    /\ idx < Len(m.Onboot)
    /\ LET image == m.Onboot[idx + 1]
           path == OnbootPath(idx, image)
           oci == Call("ConfigToOCI", image.Image, FALSE, FALSE, <<>>)
           bundle == Call("ImageBundle", image.Image,
                          enforceContentTrust(image.Image, m.Trust), pull, path)
       IN  \/ /\ calls' = Append(calls, oci)
              /\ Fatal("ConfigToOCI")
              /\ UNCHANGED <<idx, iw, appended>>
           \/ /\ calls' = calls \o <<oci, bundle>>
              /\ \/ Fatal("ImageBundle") /\ UNCHANGED <<idx, iw, appended>>
                 \/ AppendFragment("onboot", idx,
                        ImageBundle(path, image.Image, ConfigToOCI(image)),
                        "onboot", idx + 1)
    /\ UNCHANGED <<m, pull, closes, returned, ectVars, utkVars,
                   appVars, sizeVars, pathVars>>

\* Line 270: the loop over m.Onboot ends.
BuildOnbootDone ==
    /\ pc = "onboot"
    /\ idx = Len(m.Onboot)
    /\ pc' = "services"
    /\ idx' = 0
    /\ UNCHANGED <<m, pull, iw, closes, calls, appended, fatal, returned,
                   ectVars, utkVars,
                   appVars, sizeVars, pathVars>>

\* Lines 289-302: one service container.
BuildService ==
    /\ pc = "services"
    /\ idx < Len(m.Services)
    /\ LET image == m.Services[idx + 1]
           path == ServicePath(image)
           oci == Call("ConfigToOCI", image.Image, FALSE, FALSE, <<>>)
           bundle == Call("ImageBundle", image.Image,
                          enforceContentTrust(image.Image, m.Trust), pull, path)
       IN  \/ /\ calls' = Append(calls, oci)
              /\ Fatal("ConfigToOCI")
              /\ UNCHANGED <<idx, iw, appended>>
           \/ /\ calls' = calls \o <<oci, bundle>>
              /\ \/ Fatal("ImageBundle") /\ UNCHANGED <<idx, iw, appended>>
                 \/ AppendFragment("services", idx,
                        ImageBundle(path, image.Image, ConfigToOCI(image)),
                        "services", idx + 1)
    /\ UNCHANGED <<m, pull, closes, returned, ectVars, utkVars,
                   appVars, sizeVars, pathVars>>

\* Line 289: the loop over m.Services ends.
BuildServicesDone ==
    /\ pc = "services"
    /\ idx = Len(m.Services)
    /\ pc' = "files"
    /\ idx' = 0
    /\ UNCHANGED <<m, pull, iw, closes, calls, appended, fatal, returned,
                   ectVars, utkVars,
                   appVars, sizeVars, pathVars>>

\* Lines 304-309: the overlay of files.
BuildFiles ==
    /\ pc = "files"
    /\ calls' = Append(calls, Call("filesystem", <<>>, FALSE, FALSE, <<>>))
    /\ \/ Fatal("filesystem") /\ UNCHANGED <<idx, iw, appended>>
       \/ AppendFragment("files", 0, filesystem(m), "close", 0)
    /\ UNCHANGED <<m, pull, closes, returned, ectVars, utkVars,
                   appVars, sizeVars, pathVars>>

\* Lines 310-315: the archive is closed and its bytes are returned.
BuildClose ==
    /\ pc = "close"
    /\ iw' = WriterClose(iw)
    /\ closes' = closes + 1
    /\ \/ Fatal("Close") /\ UNCHANGED returned
       \/ /\ pc' = "returned"
          /\ fatal' = fatal
          /\ returned' = Buffer(TarBlob(iw'.entries))
    /\ UNCHANGED <<m, pull, idx, calls, appended, ectVars, utkVars,
                   appVars, sizeVars, pathVars>>

NextBuild ==
    \/ BuildPull \/ BuildNoPull
    \/ BuildKernel \/ BuildNoKernel
    \/ BuildInit \/ BuildInitDone
    \/ BuildOnboot \/ BuildOnbootDone
    \/ BuildService \/ BuildServicesDone
    \/ BuildFiles \/ BuildClose

(***************************************************************************)
(* One call of initrdAppend, one step per entry of the fragment.           *)
(***************************************************************************)
AppendEntries ==
    { Header(<<"d">>, 493, TypeDir, Bytes(<<>>)),
      Header(<<"d", "/", "f">>, 420, TypeReg, Bytes(<<"x", "y">>)),
      Header(<<"g">>, 384, TypeReg, Bytes(<<"z">>)) }
OldEntry == Header(<<"o", "l", "d">>, 420, TypeReg, Bytes(<<"o">>))

\* The archive at the call: empty or not, open or (a write error) closed.
AppendWriters ==
    { NewWriter,
      [entries |-> <<OldEntry>>, closed |-> FALSE],
      [entries |-> <<OldEntry>>, closed |-> TRUE] }

\* The read error of the fragment stream, if any: tr.Next() fails at entry
\* at (the place of the end-of-archive marker included), or the content of
\* entry at ends early and io.Copy fails.
NoFault == [at |-> 0, kind |-> "none"]
ReadFaults(r) ==
    { [at |-> k, kind |-> "next"] : k \in 1..(Len(r) + 1) } \cup
    { [at |-> k, kind |-> "copy"] : k \in { j \in 1..Len(r) : r[j].Data.bytes # <<>> } }

InitApp ==
    /\ app_iw0 \in AppendWriters
    /\ app_iw = app_iw0
    /\ app_r \in SeqsUpTo(AppendEntries, MaxFragmentEntries)
    /\ app_fault \in {NoFault} \cup ReadFaults(app_r)
    /\ app_tr = 0
    /\ app_pc = "loop"

IdleApp ==
    /\ app_iw0 = NewWriter
    /\ app_iw = NewWriter
    /\ app_r = <<>>
    /\ app_fault = NoFault
    /\ app_tr = 0
    /\ app_pc = "idle"

\* Lines 157-171: tr.Next() returns an entry; its header and content are
\* written, or the write fails (log.Fatalln).
AppEntry ==
    /\ app_pc = "loop"
    /\ app_tr < Len(app_r)
    /\ app_fault.at # app_tr + 1
    /\ LET a == WriteEntry(app_iw, app_r[app_tr + 1])
       IN  IF a.err
           THEN app_pc' = "fatal" /\ UNCHANGED <<app_iw, app_tr>>
           ELSE app_iw' = a.w /\ app_tr' = app_tr + 1 /\ app_pc' = app_pc
    /\ UNCHANGED <<app_iw0, app_r, app_fault, ectVars, utkVars, buildVars,
                   sizeVars, pathVars>>

\* Lines 157-163: tr.Next() returns an error that is not io.EOF.
AppReadError ==
    /\ app_pc = "loop"
    /\ app_fault = [at |-> app_tr + 1, kind |-> "next"]
    /\ app_pc' = "fatal"
    /\ UNCHANGED <<app_iw0, app_iw, app_r, app_fault, app_tr, ectVars, utkVars,
                   buildVars, sizeVars, pathVars>>

\* Lines 164-171: the header is written, then io.Copy fails on the short
\* content; the archive is left with the part that was copied.
AppCopyError ==
    /\ app_pc = "loop"
    /\ app_fault = [at |-> app_tr + 1, kind |-> "copy"]
    /\ \E n \in 0..(Len(app_r[app_tr + 1].Data.bytes) - 1) :
          LET hdr == app_r[app_tr + 1]
              part == [hdr EXCEPT !.Data = Bytes(SubSeq(hdr.Data.bytes, 1, n))]
          IN  app_iw' = WriteEntry(app_iw, part).w
    /\ app_pc' = "fatal"
    /\ UNCHANGED <<app_iw0, app_r, app_fault, app_tr, ectVars, utkVars,
                   buildVars, sizeVars, pathVars>>

\* Lines 158-160: tr.Next() returns io.EOF.
AppEOF ==
    /\ app_pc = "loop"
    /\ app_tr = Len(app_r)
    /\ app_fault.at # app_tr + 1
    /\ app_pc' = "done"
    /\ UNCHANGED <<app_iw0, app_iw, app_r, app_fault, app_tr, ectVars, utkVars,
                   buildVars, sizeVars, pathVars>>

NextAppend == AppEntry \/ AppReadError \/ AppCopyError \/ AppEOF

(***************************************************************************)
(* getDiskSizeMB.                                                          *)
(***************************************************************************)
DigitChars == {"0", "1", "2", "3", "4", "5", "6", "7", "8", "9"}
DigitValue(c) == CHOOSE d \in 0..9 : Digit(d) = c

\* strings.HasSuffix.
HasSuffix(s, suffix) ==
    Len(s) >= Len(suffix) /\ SubSeq(s, Len(s) - Len(suffix) + 1, Len(s)) = suffix

RECURSIVE DecimalValue(_, _)
DecimalValue(s, k) ==
    IF k = 0 THEN 0 ELSE 10 * DecimalValue(s, k - 1) + DigitValue(s[k])

\* strconv.Atoi: an optional sign, then one or more decimal digits; anything
\* else is a syntax error, with value 0.  (The strings of the model are too
\* short for a range error.)
Atoi(s) ==
    LET signed == s # <<>> /\ s[1] \in {"+", "-"}
        digits == IF signed THEN Tail(s) ELSE s
    IN  IF digits = <<>> \/ \E k \in 1..Len(digits) : digits[k] \notin DigitChars
        THEN [val |-> 0, err |-> TRUE]
        ELSE [val |-> IF signed /\ s[1] = "-"
                      THEN 0 - DecimalValue(digits, Len(digits))
                      ELSE DecimalValue(digits, Len(digits)),
              err |-> FALSE]

SuffixG == <<"G">>
SuffixM == <<"M">>

getDiskSizeMB(s) ==
    IF s = <<>>
    THEN [val |-> 0, err |-> FALSE]
    ELSE LET sz == Len(s)
         IN  IF HasSuffix(s, SuffixG)
             THEN LET a == Atoi(SubSeq(s, 1, sz - 1))
                  IN  IF a.err THEN [val |-> 0, err |-> TRUE]
                      ELSE [val |-> a.val * 1024, err |-> FALSE]
             ELSE IF HasSuffix(s, SuffixM)
             THEN Atoi(SubSeq(s, 1, sz - 1))
             ELSE Atoi(s)

\* One call of getDiskSizeMB.
SizeChars == {"0", "1", "9", "G", "M", "g", "-", "+"}

InitSize ==
    /\ size_s \in SeqsUpTo(SizeChars, MaxSizeLen)
    /\ size_pc = "call"
    /\ size_mb = 0
    /\ size_err = FALSE

IdleSize ==
    /\ size_s = <<>>
    /\ size_pc = "idle"
    /\ size_mb = 0
    /\ size_err = FALSE

SizeReturn ==
    /\ size_mb' = getDiskSizeMB(size_s).val
    /\ size_err' = getDiskSizeMB(size_s).err
    /\ size_pc' = "done"
    /\ UNCHANGED <<size_s, ectVars, utkVars, buildVars, appVars, pathVars>>

\* Lines 137-139: the empty string.
SizeEmpty == size_pc = "call" /\ size_s = <<>> /\ SizeReturn

\* Lines 141-147: the suffix G.
SizeGiga == size_pc = "call" /\ HasSuffix(size_s, SuffixG) /\ SizeReturn

\* Lines 148-151: the suffix M.
SizeMega == size_pc = "call" /\ HasSuffix(size_s, SuffixM) /\ SizeReturn

\* Line 151: no suffix.
SizePlain ==
    /\ size_pc = "call"
    /\ size_s # <<>>
    /\ ~HasSuffix(size_s, SuffixG)
    /\ ~HasSuffix(size_s, SuffixM)
    /\ SizeReturn

NextSize == SizeEmpty \/ SizeGiga \/ SizeMega \/ SizePlain

(***************************************************************************)
(* The bundle paths of the entries at two successive positions of m.Onboot *)
(* (lines 276-277) or of m.Services (line 295).                            *)
(***************************************************************************)
InitPath ==
    /\ path_kind \in {"onboot", "services"}
    /\ path_i \in 0..(IF path_kind = "onboot" THEN MaxIndex - 1 ELSE 1)
    /\ path_images \in [1..2 -> Containers]
    /\ path_out = <<>>

IdlePath ==
    /\ path_kind = "idle"
    /\ path_i = 0
    /\ path_images = <<>>
    /\ path_out = <<>>

\* Lines 276-277: the path of the next onboot entry.
PathOnboot ==
    /\ path_kind = "onboot"
    /\ Len(path_out) < Len(path_images)
    /\ path_out' = Append(path_out,
          OnbootPath(path_i + Len(path_out), path_images[Len(path_out) + 1]))
    /\ UNCHANGED <<path_kind, path_i, path_images, ectVars, utkVars, buildVars,
                   appVars, sizeVars>>

\* Line 295: the path of the next service entry.
PathService ==
    /\ path_kind = "services"
    /\ Len(path_out) < Len(path_images)
    /\ path_out' = Append(path_out, ServicePath(path_images[Len(path_out) + 1]))
    /\ UNCHANGED <<path_kind, path_i, path_images, ectVars, utkVars, buildVars,
                   appVars, sizeVars>>

NextPath == PathOnboot \/ PathService

(***************************************************************************)
(* Specifications.                                                         *)
(***************************************************************************)
\* One run of buildInternal.
Init == InitBuild /\ IdleEct /\ IdleUtk /\ IdleApp /\ IdleSize /\ IdlePath
Next == NextBuild
Spec == Init /\ [][Next]_vars

\* One call of enforceContentTrust.
InitTrust == InitEct /\ IdleUtk /\ IdleBuild /\ IdleApp /\ IdleSize /\ IdlePath
SpecTrust == InitTrust /\ [][NextTrust]_vars

\* One call of untarKernel.
InitKernel == InitUtk /\ IdleEct /\ IdleBuild /\ IdleApp /\ IdleSize /\ IdlePath
SpecKernel == InitKernel /\ [][NextKernel]_vars

\* One call of initrdAppend.
InitAppend == InitApp /\ IdleEct /\ IdleUtk /\ IdleBuild /\ IdleSize /\ IdlePath
SpecAppend == InitAppend /\ [][NextAppend]_vars

\* One call of getDiskSizeMB.
InitDiskSize == InitSize /\ IdleEct /\ IdleUtk /\ IdleBuild /\ IdleApp /\ IdlePath
SpecSize == InitDiskSize /\ [][NextSize]_vars

\* The bundle paths of two successive list entries.
InitPaths == InitPath /\ IdleEct /\ IdleUtk /\ IdleBuild /\ IdleApp /\ IdleSize
SpecPath == InitPaths /\ [][NextPath]_vars

(***************************************************************************)
(* Properties of buildInternal (specification Spec).                       *)
(***************************************************************************)
IsPrefix(s, t) == Len(s) <= Len(t) /\ s = SubSeq(t, 1, Len(s))

\* The fragments appended so far, as <<group, index>>.
AppendOrder == [k \in 1..Len(appended) |-> <<appended[k].group, appended[k].index>>]

KernelFragments(spec) ==
    IF spec.Kernel.Image # <<>> THEN << <<"boot", 0>>, <<"ktar", 0>> >> ELSE <<>>

\* The fragments of a whole build, in the order of the pipeline.
ExpectedOrder(spec) ==
    KernelFragments(spec)
    \o [k \in 1..Len(spec.Init) |-> <<"init", k - 1>>]
    \o [k \in 1..Len(spec.Onboot) |-> <<"onboot", k - 1>>]
    \o [k \in 1..Len(spec.Services) |-> <<"services", k - 1>>]
    \o << <<"files", 0>> >>

\* The name of the first entry of the fragment of a group and index.
FirstEntryName(spec, group, n) ==
    CASE group = "boot" -> BootName
      [] group = "ktar" -> RootfsA[1].Name
      [] group = "init" -> ImageExtract(spec.Init[n + 1]).tar[1].Name
      [] group = "onboot" -> OnbootPath(n, spec.Onboot[n + 1])
      [] group = "services" -> ServicePath(spec.Services[n + 1])
      [] OTHER -> filesystem(spec).tar[1].Name

\* The fragments lie in the archive one after the other, in the order of the
\* appends, each starting with the first entry of its fragment.
FragmentsInArchive ==
    /\ \A k \in 1..Len(appended) :
          /\ appended[k].first = (IF k = 1 THEN 1 ELSE appended[k - 1].last + 1)
          /\ appended[k].first <= appended[k].last
          /\ iw.entries[appended[k].first].Name =
                FirstEntryName(m, appended[k].group, appended[k].index)
    /\ Len(iw.entries) = (IF appended = <<>> THEN 0 ELSE appended[Len(appended)].last)

CollaboratorFailures ==
    {"dockerPull", "ImageExtract", "untarKernel", "ConfigToOCI", "ImageBundle",
     "filesystem"}

\* The number of fragments of the steps before the step at phase and index n.
FragmentsBefore(spec, phase, n) ==
    LET kf == Len(KernelFragments(spec))
    IN  CASE phase = "pull" -> 0
          [] phase = "kernel" -> 0
          [] phase = "init" -> kf + n
          [] phase = "onboot" -> kf + Len(spec.Init) + n
          [] phase = "services" -> kf + Len(spec.Init) + Len(spec.Onboot) + n
          [] OTHER -> kf + Len(spec.Init) + Len(spec.Onboot) + Len(spec.Services)

\* C2: when a collaborator call or the kernel splitter fails, the build
\* stops there: the archive holds the fragments of the earlier steps only,
\* it is never closed, nothing is returned and no later step runs.
C2_AbortAtFirstError ==
    fatal # "" =>
       /\ pc = "fatal"
       /\ ~ENABLED Next
       /\ fatal \in CollaboratorFailures =>
             /\ calls # <<>>
             /\ AppendOrder = SubSeq(ExpectedOrder(m), 1,
                   FragmentsBefore(m, calls[Len(calls)].phase, idx))
             /\ FragmentsInArchive
             /\ ~iw.closed
             /\ closes = 0
             /\ returned = NilBuffer

C2_Witness ==
    /\ pc = "fatal"
    /\ fatal = "ImageBundle"
    /\ calls[Len(calls)].phase = "onboot"
    /\ idx = 1
    /\ Len(m.Onboot) = 3
    /\ Len(m.Services) >= 1
    /\ Len(appended) = Len(KernelFragments(m)) + Len(m.Init) + 1

\* C3: the archive is closed exactly once on a successful build, after the
\* overlay was appended; nothing is appended after the close, and an append
\* never closes the archive.
C3_ClosedOnceAtEnd ==
    /\ closes <= 1
    /\ iw.closed <=> closes = 1
    /\ pc \in {"pull", "kernel", "init", "onboot", "services", "files", "close"}
          => ~iw.closed
    /\ iw.closed =>
          /\ ~ENABLED Next
          /\ appended # <<>>
          /\ appended[Len(appended)].group = "files"
          /\ appended[Len(appended)].last = Len(iw.entries)
    /\ pc = "returned" => iw.closed /\ returned = Buffer(TarBlob(iw.entries))

C3_Witness ==
    /\ pc = "returned"
    /\ closes = 1
    /\ iw.closed
    /\ Len(appended) >= 3
    /\ Len(returned.blob.tar) >= 3

\* C4: with no kernel image specified, no collaborator is called for the
\* kernel (no pull, no extraction), and no kernel fragment is appended.
C4_NoKernelStep ==
    (pc # "idle" /\ m.Kernel.Image = <<>>) =>
       /\ \A k \in 1..Len(calls) :
             /\ calls[k].fn # "dockerPull"
             /\ calls[k].phase \notin {"pull", "kernel"}
       /\ \A k \in 1..Len(appended) : appended[k].group \notin {"boot", "ktar"}

\* The images a phase of the build works on.
PhaseImages(spec, phase) ==
    CASE phase \in {"pull", "kernel"} -> {spec.Kernel.Image}
      [] phase = "init" -> {spec.Init[k] : k \in 1..Len(spec.Init)}
      [] phase = "onboot" -> {spec.Onboot[k].Image : k \in 1..Len(spec.Onboot)}
      [] phase = "services" -> {spec.Services[k].Image : k \in 1..Len(spec.Services)}
      [] OTHER -> {}

VerifiedCalls ==
    {k \in 1..Len(calls) : calls[k].fn \in {"dockerPull", "ImageExtract", "ImageBundle"}}

\* C7: every dockerPull, ImageExtract and ImageBundle call is for an image of
\* its phase and is given verify = enforceContentTrust(image, trust policy);
\* the calls for one image (the kernel's pull and extraction among them) are
\* given the same flag.
C7_VerifyFlag ==
    /\ \A k \in VerifiedCalls :
          /\ calls[k].image \in PhaseImages(m, calls[k].phase)
          /\ calls[k].verify = enforceContentTrust(calls[k].image, m.Trust)
    /\ \A k \in VerifiedCalls : \A l \in VerifiedCalls :
          calls[k].image = calls[l].image => calls[k].verify = calls[l].verify

C7_Witness ==
    /\ pc = "returned"
    /\ pull
    /\ \E k \in VerifiedCalls : \E l \in VerifiedCalls :
          /\ calls[k].fn = "dockerPull" /\ calls[k].verify
          /\ calls[l].fn = "ImageExtract" /\ calls[l].phase = "kernel" /\ calls[l].verify
    /\ \E k \in VerifiedCalls : calls[k].fn = "ImageExtract" /\ ~calls[k].verify
    /\ \E k \in VerifiedCalls : calls[k].fn = "ImageBundle" /\ calls[k].verify
    /\ \E k \in VerifiedCalls : calls[k].fn = "ImageBundle" /\ ~calls[k].verify

(***************************************************************************)
(* Properties of enforceContentTrust (specification SpecTrust).            *)
(***************************************************************************)
\* The positions of the ':' of a reference that introduce a tag: not the ':'
\* of "@sha256:", and not a ':' with a '/' after it (a registry host:port).
TagColons(ref) ==
    { p \in 1..Len(ref) :
        /\ ref[p] = ":"
        /\ ~(p >= Len(DigestSep) /\ SubSeq(ref, p - Len(DigestSep) + 1, p) = DigestSep)
        /\ \A q \in (p + 1)..Len(ref) : ref[q] # "/" }

\* The positions where a "@sha256:" starts.
DigestStarts(ref) ==
    { p \in 1..(Len(ref) - Len(DigestSep) + 1) :
        SubSeq(ref, p, p + Len(DigestSep) - 1) = DigestSep }

Last(S) == CHOOSE p \in S : \A q \in S : q <= p

\* The name match as stated: the full reference, the reference without its
\* ':tag', or the reference without its '@sha256:<digest>'.
StatedNameMatch(ref, Image) ==
    \E k \in 1..Len(Image) :
       \/ Image[k] = ref
       \/ /\ TagColons(ref) # {}
          /\ Image[k] = SubSeq(ref, 1, Last(TagColons(ref)) - 1)
       \/ /\ DigestStarts(ref) # {}
          /\ Image[k] = SubSeq(ref, 1, Last(DigestStarts(ref)) - 1)

\* C5: the name match is true exactly when some Image entry equals the full
\* reference, the reference with its ':tag' removed (the tag being introduced
\* by the last ':' that introduces a tag, so not by the ':' of a registry
\* host:port), or the reference with its '@sha256:<digest>' removed.
C5_NameMatch ==
    ect_pc \in {"org", "done"} =>
       nameMatched = StatedNameMatch(fullImageName, config.Image)

\* The organization as stated: none for a reference of zero segments (the
\* empty reference), "library" for one segment, the first segment of two,
\* the second of three or more.
StatedSegments(ref) == IF ref = <<>> THEN <<>> ELSE Split(ref, Slash)

StatedOrgMatch(ref, Org) ==
    LET segs == StatedSegments(ref)
    IN  /\ Len(segs) > 0
        /\ \E k \in 1..Len(Org) :
              Org[k] = (CASE Len(segs) = 1 -> Library
                          [] Len(segs) = 2 -> segs[1]
                          [] OTHER -> segs[2])

\* C6: the org match derives the organization from the '/'-separated
\* segments (none for the empty reference, which matches no org) and is true
\* exactly when it equals some Org entry; the result is true exactly when the
\* name match or the org match is.
C6_OrgMatch ==
    ect_pc = "done" =>
       /\ ect_result = (nameMatched \/ orgMatched)
       /\ ~nameMatched => orgMatched = StatedOrgMatch(fullImageName, config.Org)

(***************************************************************************)
(* Properties of untarKernel (specification SpecKernel).                   *)
(***************************************************************************)
\* The positions of the entries of the input named as a kernel, and of those
\* named kernel.tar.
KernelEntries == { k \in 1..Len(buf) : buf[k].Name \in {kernelName, kernelAltName} }
KtarEntries == { k \in 1..Len(buf) : buf[k].Name = ktarName }

\* C8: untarKernel returns the duplicate-kernel error exactly for the inputs
\* that hold two or more entries named kernel or bzImage, wherever they are
\* and whether or not a kernel.tar entry is there.
C8_DuplicateKernel ==
    /\ utk_pc = "done" =>
          (utk_err = ErrDuplicateKernel <=> Cardinality(KernelEntries) >= 2)
    /\ utk_pc = "loop" => utk_err = ""

C8_Witness ==
    /\ utk_pc = "done"
    /\ utk_err = ErrDuplicateKernel
    /\ KtarEntries # {}
    /\ \E k \in KernelEntries : buf[k].Name = kernelName
    /\ \E k \in KernelEntries : buf[k].Name = kernelAltName
    /\ kernel = NilBuffer
    /\ ktar = NilBuffer

\* C9: at the end of the input, untarKernel fails with the missing-kernel
\* error when no kernel entry was seen, else with the missing-kernel.tar
\* error when no kernel.tar entry was seen; other entries are skipped; it
\* succeeds exactly when one kernel entry and at least one kernel.tar entry
\* were seen.
C9_MissingEntries ==
    utk_pc = "done" =>
       /\ Cardinality(KernelEntries) = 0 => utk_err = ErrNoKernel
       /\ (Cardinality(KernelEntries) = 1 /\ KtarEntries = {}) => utk_err = ErrNoKtar
       /\ utk_err = "" <=> (Cardinality(KernelEntries) = 1 /\ KtarEntries # {})
       /\ utk_err \in {ErrNoKernel, ErrNoKtar} => tr = Len(buf)
       /\ utk_err # "" => kernel = NilBuffer /\ ktar = NilBuffer

C9_Witness ==
    /\ utk_pc = "done"
    /\ utk_err = ErrNoKernel
    /\ KernelEntries = {}
    /\ KtarEntries = {}
    /\ Len(buf) >= 2

\* The boot fragment of a successful call: three entries, the directory
\* named dirName, boot/kernel as the kernel entry of the input, boot/cmdline
\* holding the cmdline; and the filesystem tar is the content of the (last)
\* kernel.tar entry.
BootFragmentIs(dirName) ==
    LET orig == buf[CHOOSE k \in KernelEntries : TRUE]
        out == kernel.blob.tar
    IN  /\ ~kernel.isNil /\ kernel.blob.isTar
        /\ Len(out) = 3
        /\ out[1].Name = dirName
        /\ out[1].Typeflag = TypeDir
        /\ out[1].Mode = 448
        /\ out[2].Name = BootKernelName
        /\ out[2].Typeflag = TypeReg
        /\ out[2].Mode = orig.Mode
        /\ out[2].Size = orig.Size
        /\ out[2].Data = orig.Data
        /\ out[3].Name = BootCmdlineName
        /\ out[3].Typeflag = TypeReg
        /\ out[3].Size = Len(cmdline)
        /\ out[3].Data = Bytes(cmdline)
        /\ ~ktar.isNil
        /\ ktar.blob = buf[Last(KtarEntries)].Data

AppendFails ==
    \/ app_fault.kind # "none"
    \/ app_iw0.closed /\ app_r # <<>>

\* C11: initrdAppend extends the archive by the entries of the fragment, in
\* order and whole (name, mode, size, type flag, content); the entries that
\* were in the archive stay as they were; a read or write error ends the run
\* at that entry, with no entry skipped and none tried again.
C11_AppendExact ==
    app_pc # "idle" =>
       /\ IsPrefix(app_iw0.entries, app_iw.entries)
       /\ app_iw.closed = app_iw0.closed
       /\ SubSeq(app_iw.entries, 1, Len(app_iw0.entries) + app_tr) =
             app_iw0.entries \o SubSeq(app_r, 1, app_tr)
       /\ app_pc \in {"loop", "done"} =>
             Len(app_iw.entries) = Len(app_iw0.entries) + app_tr
       /\ app_pc = "done" =>
             /\ ~AppendFails
             /\ app_iw.entries = app_iw0.entries \o app_r
             /\ initrdAppend(app_iw0, TarBlob(app_r)) = [w |-> app_iw, err |-> FALSE]
       /\ app_pc = "fatal" =>
             /\ AppendFails
             /\ ~ENABLED NextAppend
             /\ Len(app_iw.entries) <= Len(app_iw0.entries) + app_tr + 1
             /\ app_tr = (IF app_iw0.closed THEN 0 ELSE app_fault.at - 1)
             /\ initrdAppend(app_iw0, TarBlob(app_r)).err \/ app_fault.kind # "none"

C11_Witness ==
    /\ app_pc = "done"
    /\ Len(app_r) = 2
    /\ app_r[1] # app_r[2]
    /\ app_iw0.entries # <<>>
    /\ Len(app_iw.entries) = 3

(***************************************************************************)
(* Properties of getDiskSizeMB (specification SpecSize).                   *)
(***************************************************************************)
\* The result as stated: at most one trailing G or M is removed; what is left
\* must be a sequence of digits, and is read as a decimal number.
StatedSuffix(s) == IF s # <<>> /\ s[Len(s)] \in {"G", "M"} THEN s[Len(s)] ELSE ""
StatedRemainder(s) == IF StatedSuffix(s) = "" THEN s ELSE SubSeq(s, 1, Len(s) - 1)
AllDigits(s) == s # <<>> /\ \A k \in 1..Len(s) : s[k] \in DigitChars

StatedSize(s) ==
    IF s = <<>> THEN [val |-> 0, err |-> FALSE]
    ELSE IF ~AllDigits(StatedRemainder(s)) THEN [val |-> 0, err |-> TRUE]
    ELSE [val |-> DecimalValue(StatedRemainder(s), Len(StatedRemainder(s)))
                    * (IF StatedSuffix(s) = "G" THEN 1024 ELSE 1),
          err |-> FALSE]

\* C12: getDiskSizeMB returns 0 for the empty string, 1024 times the number
\* before a suffix G, the number before a suffix M, the number itself without
\* a suffix, and an error whenever what is left after removing at most one
\* trailing G or M is not a sequence of digits.
C12_DiskSize ==
    size_pc = "done" =>
       /\ size_err = StatedSize(size_s).err
       /\ ~size_err => size_mb = StatedSize(size_s).val

(***************************************************************************)
(* Properties of the bundle paths (specification SpecPath).                *)
(***************************************************************************)
\* The characters of the paths, in byte order.
ByteOrder ==
    <<"-", "/", "0", "1", "2", "3", "4", "5", "6", "7", "8", "9",
      "a", "b", "c", "d", "e", "f", "g", "h", "i", "j", "k", "l", "m",
      "n", "o", "p", "q", "r", "s", "t", "u", "v", "w", "x", "y", "z">>
ByteRank(c) == CHOOSE k \in 1..Len(ByteOrder) : ByteOrder[k] = c

\* a sorts strictly before b in lexicographic (byte) order.
LexLess(a, b) ==
    \E k \in 1..(Len(b)) :
       /\ k <= Len(a) + 1
       /\ SubSeq(a, 1, k - 1) = SubSeq(b, 1, k - 1)
       /\ k <= Len(a) => ByteRank(a[k]) < ByteRank(b[k])

\* path is prefix, the three decimal digits of n, a dash and the name.
StatedOnbootPath(path, n, name) ==
    LET d == SubSeq(path, Len(OnbootPrefix) + 1, Len(OnbootPrefix) + 3)
    IN  /\ Len(path) = Len(OnbootPrefix) + 3 + 1 + Len(name)
        /\ AllDigits(d)
        /\ DecimalValue(d, 3) = n
        /\ path = OnbootPrefix \o d \o <<"-">> \o name

\* C13: the bundle path of the Onboot entry at position i is
\* containers/onboot/<i as three zero-padded decimal digits>-<name>, so the
\* paths of successive entries are in ascending lexicographic order; the
\* bundle path of a Services entry is containers/services/<name>.
C13_BundlePaths ==
    /\ path_kind = "onboot" =>
          /\ \A k \in 1..Len(path_out) :
                StatedOnbootPath(path_out[k], path_i + k - 1, path_images[k].Name)
          /\ Len(path_out) = 2 => LexLess(path_out[1], path_out[2])
    /\ path_kind = "services" =>
          \A k \in 1..Len(path_out) :
             path_out[k] = ServicesPrefix \o path_images[k].Name

(***************************************************************************)
(* The empty trust policy (specification Spec).                            *)
(***************************************************************************)
EmptyTrust == [Image |-> <<>>, Org |-> <<>>]
PullCalls == {k \in 1..Len(calls) : calls[k].fn = "dockerPull"}

\* C15: under the empty trust policy enforceContentTrust is false for every
\* image reference; a build with that policy gives verify = false to every
\* dockerPull, ImageExtract and ImageBundle call, and pulls the kernel image
\* exactly when the pull flag is set.
C15_EmptyTrust ==
    /\ \A ref \in TrustRefs \cup BuildRefs \cup KernelRefs :
          ~enforceContentTrust(ref, EmptyTrust)
    /\ m.Trust = EmptyTrust =>
          /\ \A k \in VerifiedCalls : ~calls[k].verify
          /\ PullCalls # {} => pull
          /\ (pull /\ pc \notin {"idle", "pull"}) => Cardinality(PullCalls) = 1

C15_Witness ==
    /\ pc = "returned"
    /\ m.Trust = EmptyTrust
    /\ pull
    /\ m.Kernel.Image # <<>>
    /\ \E k \in PullCalls : ~calls[k].verify /\ calls[k].image = m.Kernel.Image
    /\ \E k \in VerifiedCalls : calls[k].fn = "ImageExtract" /\ calls[k].phase = "init"
    /\ \E k \in VerifiedCalls : calls[k].fn = "ImageBundle" /\ calls[k].image = <<"o", "/", "b">>

(***************************************************************************)
(* Repeated kernel.tar entries (specification SpecKernel).                 *)
(***************************************************************************)
\* The kernel.tar entries read so far.
KtarEntriesRead == {k \in KtarEntries : k <= tr}

\* C16: a kernel.tar entry replaces the filesystem tar of an earlier one and
\* is never an error; with exactly one kernel entry and more than one
\* kernel.tar entry untarKernel succeeds and returns the content of the last
\* kernel.tar entry.
C16_LastKtarWins ==
    /\ (utk_pc = "loop" /\ KtarEntriesRead # {}) =>
          ktar = Buffer(buf[Last(KtarEntriesRead)].Data)
    /\ (utk_pc = "loop" /\ KtarEntriesRead = {}) => ktar = NilBuffer
    /\ (utk_pc = "done" /\ Cardinality(KernelEntries) = 1
                        /\ Cardinality(KtarEntries) >= 2) =>
          /\ utk_err = ""
          /\ ktar = Buffer(buf[Last(KtarEntries)].Data)

C16_Witness ==
    /\ utk_pc = "done"
    /\ utk_err = ""
    /\ Cardinality(KernelEntries) = 1
    /\ Cardinality(KtarEntries) = 2
    /\ \E k \in KtarEntries : k # Last(KtarEntries) /\ buf[k].Data # ktar.blob
    /\ ktar.blob = TarBlob(RootfsB)

====
